---- MODULE Spec2Model ----
(***************************************************************************)
(* Limit trees of inspect_ai.util._limit: per-kind trees of limit nodes    *)
(* whose leaf is held in a ContextVar (one value per execution context),   *)
(* the four limit context managers (token, message, time, working time),   *)
(* and the module-level record / check entry points.                       *)
(*                                                                         *)
(* Conventions.  A node is an index into the sequence `nodes`; 0 stands    *)
(* for Python's None as a node reference.  A limit value is a natural      *)
(* number, or NoneValue for Python's None.  Context managers are used      *)
(* through `with`, so an execution context exits only what it has itself   *)
(* entered, innermost first (`stack`).  An exception raised by a cooperative*)
(* check is observed in `last` (the caller sees it at once); an exception  *)
(* travelling through time-limit scopes is held in `exc` while it unwinds. *)
(***************************************************************************)
EXTENDS Integers, Sequences, FiniteSets, TLC

\* ---------------------------------------------------------------- bounds
MaxBranches == 3      \* execution contexts (the main one and forked ones)
MaxNodes == 2         \* limit nodes created in one run
MaxBound == 2         \* limit values are drawn from 0..MaxBound and None
MaxUsage == 2         \* total_tokens of one recorded ModelUsage: 1..MaxUsage
MaxTotal == 3         \* cap on a node's accumulated tokens
NumLimits == 2        \* limit objects constructed per kind
MaxCount == 3         \* message counts passed to a check: 0..MaxCount
MaxTime == 3          \* the clock runs from 0 to MaxTime
MaxClock == 15        \* ... and from 0 to MaxClock under a mocked clock
MaxAdvance == 10      \* one advance of the mocked clock: 1..MaxAdvance
MaxApply == 3         \* length of a list given to apply_limits: 1..MaxApply
InnerLimit == 10      \* the limit of the inner scope in the nesting tests

\* ------------------------------------------------------------ value space
NoneValue == -100     \* Python's None as a limit value
Unconstructed == -200 \* the limit object does not exist (yet)

Kinds == {"token", "message", "time", "working"}
Branches == 1..MaxBranches
Limits == 1..NumLimits
LimitArgs == (0..MaxBound) \cup {NoneValue, -1}

VARIABLES
    limit_value,  \* [kind][i]: _LimitValueWrapper.value of limit object i
    nodes,        \* every node created so far, in creation order
    leaf,         \* [branch][kind]: the ContextVar _leaf_node of each tree
    active,       \* the execution contexts that exist
    stack,        \* [branch]: nodes of the `with` blocks it is inside of
    now,          \* time.monotonic() / the event loop's clock
    exc,          \* [branch]: the exception propagating in the context
    last,         \* what the last call did, as its caller observes it
    recorded,     \* history: per node, amounts recorded while on the chain
    inherited,    \* history: [branch][kind]: its leaf when it was forked
    spent,        \* history: [branch]: tokens it recorded into some node
    born,         \* history: [branch]: its time leaf when the sleep was
                  \* cancelled whose cancellation, or what a scope made
                  \* of it, is propagating in it (0: none)
    script        \* history: how far the calls made so far follow the
                  \* sequence of test_raises_error_when_limit_exceeded
                  \* continued as in test_subtracts_waiting_time, or
                  \* that of
                  \* test_raises_error_when_limit_repeatedly_exceeded

vars == <<limit_value, nodes, leaf, active, stack, now, exc, last, recorded,
          inherited, spent, born, script>>

\* ------------------------------------------------------------- records
\* A formatted message: the fixed wording and the numbers it embeds
\* (has_value tells whether the measured value is part of the text).
Text(head, type, has_value, value, limit) ==
    [head |-> head, type |-> type, has_value |-> has_value,
     value |-> IF has_value THEN value ELSE 0, limit |-> limit]

NoText == Text("", "", FALSE, 0, 0)

\* An exception object; `node` (history) is the node whose code raised it
\* and `cause` the type of the exception it is chained from (__cause__).
NoExc == [type |-> "none", kind |-> "", value |-> 0, limit |-> 0,
          message |-> NoText, args |-> NoText, node |-> 0, cause |-> "none"]

\* LimitExceededError.__init__: the message attribute is formatted from
\* type and limit; the message argument goes to Exception.__init__.
LimitExceededError(type, value, limit, message) ==
    [NoExc EXCEPT !.type = "LimitExceededError", !.kind = type,
                  !.value = value, !.limit = limit,
                  !.message = Text("Exceeded", type, FALSE, 0, limit),
                  !.args = message]

ValueError == [NoExc EXCEPT !.type = "ValueError"]
RuntimeError == [NoExc EXCEPT !.type = "RuntimeError"]

\* SampleLimitEvent(type=..., limit=..., message=...)
SampleLimitEvent(type, limit, message) ==
    [type |-> type, limit |-> limit, message |-> message]

\* What the last call did: the context it ran in, the kind and index of
\* the limit object it was made on, the node it pushed, popped or started
\* from, the nodes whose own check ran, the events it
\* appended to transcript(), in order, and the exception that came out
\* of it (NoExc when it returned).
NoLast == [op |-> "init", branch |-> 0, child |-> 0, kind |-> "",
           handle |-> 0, node |-> 0, arg |-> 0, strict |-> FALSE,
           visited |-> {}, events |-> <<>>, error |-> NoExc,
           limits |-> <<>>,     \* apply_limits: the list it was given,
           acquired |-> <<>>,   \* the nodes it pushed, in order, and
           released |-> <<>>]   \* the nodes it popped, in order

Call(op, b) == [NoLast EXCEPT !.op = op, !.branch = b]

\* _LimitNode.__init__ and the subclasses' __init__: a fresh node.
NewNode(k, i) ==
    [kind |-> k, limit |-> i, parent |-> 0,
     host |-> 0,                 \* history: the context that entered it
     usage |-> 0,                \* _TokenLimitNode._usage.total_tokens
     start_time |-> 0,           \* _WorkingTimeLimitNode._start_time
     waiting_time |-> 0,         \* _WorkingTimeLimitNode._waiting_time
     deadline |-> NoneValue,     \* _TimeLimitNode._cancel_scope.deadline
     cancel_called |-> FALSE,    \* _TimeLimitNode._cancel_scope.cancel_called
     seen |-> NoneValue,         \* history: the limit's value at __enter__
     frame |-> 0]                \* history: the apply_limits call that
                                 \* entered it (its first node), 0: none

\* The position in the call sequence
\*     with working_time_limit(1):
\*         advance 5; check; record_waiting_time(2); advance 10; check
\* that the calls made so far have reached: 1 after the enter (no other
\* working-time scope being open), ..., 6 after the second check; 0 when
\* the calls do not follow the sequence.  In the same way 11 to 14 follow
\*     with working_time_limit(1):
\*         advance 2; check; advance 1; check
\* (test_raises_error_when_limit_repeatedly_exceeded).  It is the last
\* conjunct of every action, where the action's own effect is already
\* determined.
ScriptStep ==
    LET op == last'.op
        n == last'.node
    IN IF /\ op = "enter" /\ last'.kind = "working"
          /\ nodes'[last'.node].parent = 0
          /\ limit_value'["working"][last'.handle] = 1
       THEN 1
       ELSE IF script = 1 /\ op = "advance" /\ now' = now + 5 THEN 2
       ELSE IF script = 2 /\ op = "check_working_time_limit" THEN 3
       ELSE IF /\ script = 3 /\ op = "record_waiting_time" /\ n # 0
               /\ nodes'[n].waiting_time = nodes[n].waiting_time + 2
       THEN 4
       ELSE IF script = 4 /\ op = "advance" /\ now' = now + 10 THEN 5
       ELSE IF script = 5 /\ op = "check_working_time_limit" THEN 6
       ELSE IF script = 1 /\ op = "advance" /\ now' = now + 2 THEN 11
       ELSE IF script = 11 /\ op = "check_working_time_limit" THEN 12
       ELSE IF script = 12 /\ op = "advance" /\ now' = now + 1 THEN 13
       ELSE IF script = 13 /\ op = "check_working_time_limit" THEN 14
       ELSE 0

\* ------------------------------------------------------------ the tree
\* _Tree.get
Tree_get(lf, b, k) == lf[b][k]

\* _Tree.push: the ContextVar's new value in each context.
PushAllContexts(lf, b, k, n) ==
    [c \in Branches |-> [lf[c] EXCEPT ![k] = n]]

Tree_push_leaf(lf, b, k, n) == [lf EXCEPT ![b][k] = n]

\* _Tree.push: the node list after new_node.parent = current_leaf.
Tree_push_nodes(ns, lf, b, node) ==
    Append(ns, [node EXCEPT !.parent = Tree_get(lf, b, node.kind)])

\* _Tree.pop that leaves the ContextVar as it is.
PopNothing(ns, lf, b, k) == lf

\* _Tree.pop that empties the tree of the calling context.
PopToRoot(ns, lf, b, k) == [lf EXCEPT ![b][k] = 0]

\* _Tree.pop: the ContextVar's new value (the leaf is not None).
PopAllContexts(ns, lf, b, k) ==
    [c \in Branches |-> [lf[c] EXCEPT ![k] = ns[lf[b][k]].parent]]

Tree_pop_leaf(ns, lf, b, k) == [lf EXCEPT ![b][k] = ns[lf[b][k]].parent]

\* The leaf-to-root chain of node n (n itself first).
RECURSIVE Chain(_, _)
Chain(ns, n) == IF n = 0 THEN <<>> ELSE <<n>> \o Chain(ns, ns[n].parent)

ChainSet(ns, n) == {Chain(ns, n)[j] : j \in 1..Len(Chain(ns, n))}

\* The strict ancestors of node n.
Ancestors(ns, n) == IF n = 0 THEN {} ELSE ChainSet(ns, ns[n].parent)

\* How many times limit object i of kind k has been entered: every
\* __enter__ creates one node, and nodes are never removed from `nodes`.
Entered(k, i) ==
    Cardinality({n \in DOMAIN nodes :
                    nodes[n].kind = k /\ nodes[n].limit = i})

\* ---------------------------------------------------------------- Init
\* The values a constructor accepts (see Validate_rejects below).
LimitValues == (0..MaxBound) \cup {NoneValue}

\* The state in which the limit objects of the kinds in K have been
\* constructed, with any values from V, and nothing has been entered.
InitWith(K, V) ==
    /\ \E f \in [K \X Limits -> V] :
          limit_value = [k \in Kinds |-> [i \in Limits |->
                            IF k \in K THEN f[<<k, i>>] ELSE Unconstructed]]
    /\ nodes = <<>>
    /\ leaf = [b \in Branches |-> [k \in Kinds |-> 0]]
    /\ active = {1}
    /\ stack = [b \in Branches |-> <<>>]
    /\ now = 0
    /\ exc = [b \in Branches |-> NoExc]
    /\ last = NoLast
    /\ recorded = <<>>
    /\ inherited = [b \in Branches |-> [k \in Kinds |-> 0]]
    /\ spent = [b \in Branches |-> 0]
    /\ born = [b \in Branches |-> 0]
    /\ script = 0

\* Nothing constructed yet.
Init == InitWith({}, {})

\* A context that can run ordinary code: it exists and nothing is
\* propagating in it.
Running(b) == b \in active /\ exc[b].type = "none"

\* --------------------------------------------------- limit construction
\* A validation that accepts every value.
NeverRejects(v) == FALSE

\* _validate_token_limit and its three siblings.
Validate_rejects(v) == v # NoneValue /\ v < 0

\* token_limit / message_limit / time_limit / working_time_limit: the
\* constructor validates, then wraps the value.
Construct(k, i, v) ==
    /\ limit_value[k][i] = Unconstructed
    /\ IF Validate_rejects(v)
       THEN /\ last' = [Call("construct", 0) EXCEPT
                            !.kind = k, !.handle = i, !.arg = v,
                            !.error = ValueError]
            /\ UNCHANGED limit_value
       ELSE /\ limit_value' = [limit_value EXCEPT ![k][i] = v]
            /\ last' = [Call("construct", 0) EXCEPT
                            !.kind = k, !.handle = i, !.arg = v]
    /\ UNCHANGED <<nodes, leaf, active, stack, now, exc, recorded,
                   inherited, spent, born>>
    /\ script' = ScriptStep

\* ------------------------------------------------------------------ fork
\* A new task runs in a copy of its creator's context: every ContextVar
\* of the copy starts with the creator's value.
Fork(b, c) ==
    /\ Running(b)
    /\ c \notin active
    /\ \A d \in Branches \ active : c <= d
    /\ active' = active \cup {c}
    /\ leaf' = [leaf EXCEPT ![c] = leaf[b]]
    /\ inherited' = [inherited EXCEPT ![c] = leaf[b]]
    /\ last' = [Call("fork", b) EXCEPT !.child = c]
    /\ UNCHANGED <<limit_value, nodes, stack, now, exc, recorded, spent, born>>
    /\ script' = ScriptStep

\* ------------------------------------------------- entering and exiting
\* __enter__ of a limit: push a fresh node built around the limit
\* object's value wrapper.  `node` is the node as its constructor left it.
Enter(b, k, i, node) ==
    /\ Running(b)
    /\ limit_value[k][i] # Unconstructed
    /\ Len(nodes) < MaxNodes
    /\ nodes' = Tree_push_nodes(nodes, leaf, b,
                  [node EXCEPT !.host = b, !.seen = limit_value[k][i]])
    /\ leaf' = Tree_push_leaf(leaf, b, k, Len(nodes) + 1)
    /\ stack' = [stack EXCEPT ![b] = Append(@, Len(nodes) + 1)]
    /\ recorded' = Append(recorded, 0)
    /\ last' = [Call("enter", b) EXCEPT !.kind = k, !.handle = i,
                                        !.node = Len(nodes) + 1]
    /\ UNCHANGED <<limit_value, active, now, exc, inherited, spent, born>>
    /\ script' = ScriptStep

\* The innermost `with` block of context b, when it is one of kind k.
InnermostIs(b, k) ==
    /\ stack[b] # <<>>
    /\ nodes[stack[b][Len(stack[b])]].kind = k
    /\ nodes[stack[b][Len(stack[b])]].frame = 0

\* __exit__ of a token, message or working-time limit: pop, nothing else.
Exit(b, k) ==
    /\ b \in active
    /\ InnermostIs(b, k)
    /\ leaf' = Tree_pop_leaf(nodes, leaf, b, k)
    /\ stack' = [stack EXCEPT ![b] = SubSeq(@, 1, Len(@) - 1)]
    /\ last' = [Call("exit", b) EXCEPT !.kind = k,
                   !.handle = nodes[Tree_get(leaf, b, k)].limit,
                   !.node = Tree_get(leaf, b, k)]
    /\ UNCHANGED <<limit_value, nodes, active, now, exc, recorded,
                   inherited, spent, born>>
    /\ script' = ScriptStep

\* __exit__ of a limit of kind k called in a context whose leaf of that
\* kind is None (no __enter__ of that kind is open there): _Tree.pop
\* raises before anything is set.
Tree_pop_empty(b, k) ==
    /\ Running(b)
    /\ Tree_get(leaf, b, k) = 0
    /\ exc' = [exc EXCEPT ![b] = RuntimeError]
    /\ last' = [Call("exit", b) EXCEPT !.kind = k, !.error = RuntimeError]
    /\ UNCHANGED <<limit_value, nodes, leaf, active, stack, now, recorded,
                   inherited, spent, born>>
    /\ script' = ScriptStep

\* The limit setter of _TokenLimit and _MessageLimit: validate, then
\* store into the shared wrapper.
SetLimit(k, i, v) ==
    /\ limit_value[k][i] # Unconstructed
    /\ IF Validate_rejects(v)
       THEN /\ last' = [Call("set_limit", 0) EXCEPT
                            !.kind = k, !.handle = i, !.arg = v,
                            !.error = ValueError]
            /\ UNCHANGED limit_value
       ELSE /\ limit_value' = [limit_value EXCEPT ![k][i] = v]
            /\ last' = [Call("set_limit", 0) EXCEPT
                            !.kind = k, !.handle = i, !.arg = v]
    /\ UNCHANGED <<nodes, leaf, active, stack, now, exc, recorded,
                   inherited, spent, born>>
    /\ script' = ScriptStep

\* `limit_object.limit = v` on a _TimeLimit or a _WorkingTimeLimit: these
\* classes define no limit property, so the statement creates an
\* instance attribute: nothing is validated and the value wrapper, held
\* in _limit, is not touched.
SetAttribute(k, i, v) ==
    /\ limit_value[k][i] # Unconstructed
    /\ last' = [Call("set_limit", 0) EXCEPT
                    !.kind = k, !.handle = i, !.arg = v]
    /\ UNCHANGED <<limit_value, nodes, leaf, active, stack, now, exc,
                   recorded, inherited, spent, born>>
    /\ script' = ScriptStep

\* A check that found nothing; `visited` are the nodes it evaluated.
Passed(visited) == [error |-> NoExc, visited |-> visited]

\* A check whose error reaches the caller with nothing appended to the
\* transcript.
RaiseWithoutEvent(call, res) ==
    last' = [call EXCEPT !.visited = res.visited, !.error = res.error]

\* What the caller of a check sees: when the check raises, the event
\* is appended to the transcript first.
Raise(call, res) ==
    last' = [call EXCEPT
                !.visited = res.visited,
                !.error = res.error,
                !.events = IF res.error.type = "none" THEN <<>>
                           ELSE <<SampleLimitEvent(res.error.kind,
                                      res.error.limit, res.error.args)>>]

\* ---------------------------------------------------------------- token
\* _TokenLimit.__enter__ with a node that starts from the usage of the
\* node it is pushed onto.
TokenEnterCarryingUsage(b, i) ==
    Enter(b, "token", i,
          [NewNode("token", i) EXCEPT
              !.usage = IF Tree_get(leaf, b, "token") = 0 THEN 0
                        ELSE nodes[Tree_get(leaf, b, "token")].usage])

\* _TokenLimit.__enter__
TokenLimit_enter(b, i) == Enter(b, "token", i, NewNode("token", i))

\* _TokenLimit.__exit__
TokenLimit_exit(b) == Exit(b, "token")

\* _TokenLimit.limit (setter)
TokenLimit_set_limit(i, v) == SetLimit("token", i, v)

\* _TokenLimitNode.record, with the write to the parents left out.
RecordSelfOnly(ns, n, u) == [ns EXCEPT ![n].usage = @ + u]

\* _TokenLimitNode.record
RECURSIVE TokenLimitNode_record(_, _, _)
TokenLimitNode_record(ns, n, u) ==
    LET above == IF ns[n].parent # 0
                 THEN TokenLimitNode_record(ns, ns[n].parent, u)
                 ELSE ns
    IN [above EXCEPT ![n].usage = @ + u]

\* _TokenLimitNode._check_self, raising at total >= limit.
TokenCheckSelfAtEqual(ns, lv, n) ==
    IF lv["token"][ns[n].limit] = NoneValue
    THEN NoExc
    ELSE LET total == ns[n].usage
             limit == lv["token"][ns[n].limit]
         IN IF total >= limit
            THEN [LimitExceededError("token", total, limit,
                      Text("Token limit exceeded", "token", TRUE, total,
                           limit)) EXCEPT !.node = n]
            ELSE NoExc

\* _TokenLimitNode._check_self, comparing against the value the limit
\* had when the node was created.
TokenCheckSelfStale(ns, lv, n) ==
    IF ns[n].seen = NoneValue
    THEN NoExc
    ELSE LET total == ns[n].usage
             limit == ns[n].seen
         IN IF total > limit
            THEN [LimitExceededError("token", total, limit,
                      Text("Token limit exceeded", "token", TRUE, total,
                           limit)) EXCEPT !.node = n]
            ELSE NoExc

\* _TokenLimitNode._check_self: the exception it raises, NoExc if none.
TokenLimitNode_check_self(ns, lv, n) ==
    IF lv["token"][ns[n].limit] = NoneValue
    THEN NoExc
    ELSE LET total == ns[n].usage
             limit == lv["token"][ns[n].limit]
         IN IF total > limit
            THEN [LimitExceededError("token", total, limit,
                      Text("Token limit exceeded", "token", TRUE, total,
                           limit)) EXCEPT !.node = n]
            ELSE NoExc

\* _TokenLimitNode.check, checking the parents before the node itself.
RECURSIVE TokenCheckRootFirst(_, _, _)
TokenCheckRootFirst(ns, lv, n) ==
    LET up == IF ns[n].parent # 0
              THEN TokenCheckRootFirst(ns, lv, ns[n].parent)
              ELSE Passed({})
        self == TokenLimitNode_check_self(ns, lv, n)
    IN IF up.error.type # "none" THEN up
       ELSE [error |-> self, visited |-> up.visited \cup {n}]

\* _TokenLimitNode.check
RECURSIVE TokenLimitNode_check(_, _, _)
TokenLimitNode_check(ns, lv, n) ==
    LET self == TokenLimitNode_check_self(ns, lv, n)
    IN IF self.type # "none"
       THEN [error |-> self, visited |-> {n}]
       ELSE IF ns[n].parent # 0
            THEN LET up == TokenLimitNode_check(ns, lv, ns[n].parent)
                 IN [up EXCEPT !.visited = @ \cup {n}]
            ELSE Passed({n})

\* record_model_usage(usage), usage.total_tokens = u
record_model_usage(b, u) ==
    /\ Running(b)
    /\ LET node == Tree_get(leaf, b, "token")
       IN /\ \A n \in ChainSet(nodes, node) : nodes[n].usage + u <= MaxTotal
          /\ nodes' = IF node = 0 THEN nodes
                      ELSE TokenLimitNode_record(nodes, node, u)
          /\ recorded' = [n \in DOMAIN recorded |->
                            IF n \in ChainSet(nodes, node)
                            THEN recorded[n] + u ELSE recorded[n]]
          /\ spent' = IF node = 0 THEN spent
                      ELSE [spent EXCEPT ![b] = @ + u]
          /\ last' = [Call("record_model_usage", b) EXCEPT !.node = node]
    /\ UNCHANGED <<limit_value, leaf, active, stack, now, exc, inherited,
                   born>>
    /\ script' = ScriptStep

\* check_token_limit() raising when the context has no token limit open.
CheckTokenLimitRequiringScope(b) ==
    /\ Running(b)
    /\ LET node == Tree_get(leaf, b, "token")
           res == IF node = 0 THEN [error |-> RuntimeError, visited |-> {}]
                  ELSE TokenLimitNode_check(nodes, limit_value, node)
       IN last' = [Call("check_token_limit", b) EXCEPT
                      !.node = node, !.visited = res.visited,
                      !.error = res.error]
    /\ UNCHANGED <<limit_value, nodes, leaf, active, stack, now, exc,
                   recorded, inherited, spent, born>>
    /\ script' = ScriptStep

\* check_token_limit()
check_token_limit(b) ==
    /\ Running(b)
    /\ LET node == Tree_get(leaf, b, "token")
           res == IF node = 0 THEN Passed({})
                  ELSE TokenLimitNode_check(nodes, limit_value, node)
       IN Raise([Call("check_token_limit", b) EXCEPT !.node = node], res)
    /\ UNCHANGED <<limit_value, nodes, leaf, active, stack, now, exc,
                   recorded, inherited, spent, born>>
    /\ script' = ScriptStep

\* -------------------------------------------------------------- message
\* _MessageLimit.__enter__, refusing a limit object entered before.
MessageEnterOnce(b, i) ==
    IF Entered("message", i) = 0
    THEN Enter(b, "message", i, NewNode("message", i))
    ELSE /\ Running(b)
         /\ limit_value["message"][i] # Unconstructed
         /\ last' = [Call("enter", b) EXCEPT !.kind = "message",
                         !.handle = i, !.error = RuntimeError]
         /\ UNCHANGED <<limit_value, nodes, leaf, active, stack, now, exc,
                        recorded, inherited, spent, born>>
         /\ script' = ScriptStep

\* _MessageLimit.__enter__
MessageLimit_enter(b, i) == Enter(b, "message", i, NewNode("message", i))

\* _MessageLimit.__exit__
MessageLimit_exit(b) == Exit(b, "message")

\* _MessageLimit.limit (setter)
MessageLimit_set_limit(i, v) == SetLimit("message", i, v)

\* The text of the message-limit violation.
MessageText(count, limit) ==
    Text(IF count = limit THEN "Message limit reached"
         ELSE "Message limit exceeded", "message", TRUE, count, limit)

\* _MessageLimitNode.check, ignoring raise_for_equal.
MessageCheckNeverStrict(ns, lv, n, count, raise_for_equal) ==
    IF lv["message"][ns[n].limit] = NoneValue
    THEN NoExc
    ELSE LET limit == lv["message"][ns[n].limit]
         IN IF count > limit
            THEN [LimitExceededError("message", count, limit,
                      MessageText(count, limit)) EXCEPT !.node = n]
            ELSE NoExc

\* _MessageLimitNode.check: the exception it raises, NoExc if none.
MessageLimitNode_check(ns, lv, n, count, raise_for_equal) ==
    IF lv["message"][ns[n].limit] = NoneValue
    THEN NoExc
    ELSE LET limit == lv["message"][ns[n].limit]
         IN IF count > limit \/ (raise_for_equal /\ count = limit)
            THEN [LimitExceededError("message", count, limit,
                      MessageText(count, limit)) EXCEPT !.node = n]
            ELSE NoExc

\* check_message_limit, walking up to the parents like the token check.
RECURSIVE MessageCheckAncestors(_, _, _, _, _)
MessageCheckAncestors(ns, lv, n, count, raise_for_equal) ==
    LET self == MessageLimitNode_check(ns, lv, n, count, raise_for_equal)
    IN IF self.type # "none"
       THEN [error |-> self, visited |-> {n}]
       ELSE IF ns[n].parent # 0
            THEN LET up == MessageCheckAncestors(ns, lv, ns[n].parent,
                                                 count, raise_for_equal)
                 IN [up EXCEPT !.visited = @ \cup {n}]
            ELSE Passed({n})

\* check_message_limit: what node.check(count, raise_for_equal) does.
MessageCheck(ns, lv, n, count, raise_for_equal) ==
    [error |-> MessageLimitNode_check(ns, lv, n, count, raise_for_equal),
     visited |-> {n}]

\* check_message_limit(count, raise_for_equal)
check_message_limit(b, count, raise_for_equal) ==
    /\ Running(b)
    /\ LET node == Tree_get(leaf, b, "message")
           res == IF node = 0 THEN Passed({})
                  ELSE MessageCheck(nodes, limit_value, node, count,
                                    raise_for_equal)
       IN Raise([Call("check_message_limit", b) EXCEPT
                    !.node = node, !.arg = count,
                    !.strict = raise_for_equal], res)
    /\ UNCHANGED <<limit_value, nodes, leaf, active, stack, now, exc,
                   recorded, inherited, spent, born>>
    /\ script' = ScriptStep

\* --------------------------------------------------------- working time
\* _WorkingTimeLimit.__enter__ with a node that counts from clock time 0.
WorkingEnterStartingAtZero(b, i) ==
    Enter(b, "working", i, NewNode("working", i))

\* _WorkingTimeLimit.__enter__; the node's constructor reads the clock.
WorkingTimeLimit_enter(b, i) ==
    Enter(b, "working", i,
          [NewNode("working", i) EXCEPT !.start_time = now])

\* _WorkingTimeLimit.__exit__
WorkingTimeLimit_exit(b) == Exit(b, "working")

\* _WorkingTimeLimitNode.record_waiting_time, parents left out.
WaitingSelfOnly(ns, n, w) == [ns EXCEPT ![n].waiting_time = @ + w]

\* _WorkingTimeLimitNode.record_waiting_time
RECURSIVE WorkingTimeLimitNode_record_waiting_time(_, _, _)
WorkingTimeLimitNode_record_waiting_time(ns, n, w) ==
    LET above == IF ns[n].parent # 0
                 THEN WorkingTimeLimitNode_record_waiting_time(
                          ns, ns[n].parent, w)
                 ELSE ns
    IN [above EXCEPT ![n].waiting_time = @ + w]

\* _WorkingTimeLimitNode._check_self, the waiting time not subtracted.
WorkingCheckIgnoringWaiting(ns, lv, t, n) ==
    IF lv["working"][ns[n].limit] = NoneValue
    THEN NoExc
    ELSE LET working_time == t - ns[n].start_time
             limit == lv["working"][ns[n].limit]
         IN IF working_time > limit
            THEN [LimitExceededError("working", working_time, limit,
                      Text("Working time limit exceeded", "working",
                           FALSE, 0, limit)) EXCEPT !.node = n]
            ELSE NoExc

\* _WorkingTimeLimitNode._check_self: the exception it raises, if any.
WorkingTimeLimitNode_check_self(ns, lv, t, n) ==
    IF lv["working"][ns[n].limit] = NoneValue
    THEN NoExc
    ELSE LET working_time == t - ns[n].start_time - ns[n].waiting_time
             limit == lv["working"][ns[n].limit]
         IN IF working_time > limit
            THEN [LimitExceededError("working", working_time, limit,
                      Text("Working time limit exceeded", "working",
                           FALSE, 0, limit)) EXCEPT !.node = n]
            ELSE NoExc

\* _WorkingTimeLimitNode.check
RECURSIVE WorkingTimeLimitNode_check(_, _, _, _)
WorkingTimeLimitNode_check(ns, lv, t, n) ==
    LET self == WorkingTimeLimitNode_check_self(ns, lv, t, n)
    IN IF self.type # "none"
       THEN [error |-> self, visited |-> {n}]
       ELSE IF ns[n].parent # 0
            THEN LET up == WorkingTimeLimitNode_check(ns, lv, t,
                                                      ns[n].parent)
                 IN [up EXCEPT !.visited = @ \cup {n}]
            ELSE Passed({n})

\* record_waiting_time(waiting_time)
record_waiting_time(b, w) ==
    /\ Running(b)
    /\ LET node == Tree_get(leaf, b, "working")
       IN /\ \A n \in ChainSet(nodes, node) :
                nodes[n].waiting_time + w <= MaxTime
          /\ nodes' = IF node = 0 THEN nodes
                      ELSE WorkingTimeLimitNode_record_waiting_time(
                               nodes, node, w)
          /\ recorded' = [n \in DOMAIN recorded |->
                            IF n \in ChainSet(nodes, node)
                            THEN recorded[n] + w ELSE recorded[n]]
          /\ last' = [Call("record_waiting_time", b) EXCEPT !.node = node]
    /\ UNCHANGED <<limit_value, leaf, active, stack, now, exc, inherited, spent,
                   born>>
    /\ script' = ScriptStep

\* check_working_time_limit() that, when it raises, starts the time of
\* the node that raised anew.
CheckWorkingRestarting(b) ==
    /\ Running(b)
    /\ LET node == Tree_get(leaf, b, "working")
           res == IF node = 0 THEN Passed({})
                  ELSE WorkingTimeLimitNode_check(nodes, limit_value, now,
                                                  node)
       IN /\ Raise([Call("check_working_time_limit", b) EXCEPT
                       !.node = node], res)
          /\ nodes' = IF res.error.type = "none" THEN nodes
                      ELSE [nodes EXCEPT ![res.error.node].start_time = now]
    /\ UNCHANGED <<limit_value, leaf, active, stack, now, exc,
                   recorded, inherited, spent, born>>
    /\ script' = ScriptStep

\* check_working_time_limit()
check_working_time_limit(b) ==
    /\ Running(b)
    /\ LET node == Tree_get(leaf, b, "working")
           res == IF node = 0 THEN Passed({})
                  ELSE WorkingTimeLimitNode_check(nodes, limit_value, now,
                                                  node)
       IN Raise([Call("check_working_time_limit", b) EXCEPT
                    !.node = node], res)
    /\ UNCHANGED <<limit_value, nodes, leaf, active, stack, now, exc,
                   recorded, inherited, spent, born>>
    /\ script' = ScriptStep

\* The clock moves on while context b computes without suspending
\* (in the tests, mock_time.advance).
advance(b, d) ==
    /\ Running(b)
    /\ now + d <= MaxTime
    /\ now' = now + d
    /\ last' = [Call("advance", b) EXCEPT !.arg = d]
    /\ UNCHANGED <<limit_value, nodes, leaf, active, stack, exc, recorded,
                   inherited, spent, born>>
    /\ script' = ScriptStep

\* _WorkingTimeLimit has no limit setter.
WorkingTimeLimit_set_limit(i, v) == SetAttribute("working", i, v)

\* _MockTime.advance(seconds) of the working-time tests, which patch
\* time.monotonic: the clock that the working-time nodes read moves on.
MockTime_advance(b, d) ==
    /\ Running(b)
    /\ now + d <= MaxClock
    /\ now' = now + d
    /\ last' = Call("advance", b)
    /\ UNCHANGED <<limit_value, nodes, leaf, active, stack, exc, recorded,
                   inherited, spent, born>>
    /\ script' = ScriptStep

\* ----------------------------------------------------------------- time
\* _TimeLimitNode.__init__: anyio.move_on_after(limit.value) entered at
\* time t.  The scope's deadline is t + limit, none for limit None; a
\* scope whose deadline is already reached when it is entered (limit 0)
\* is cancelled by its __enter__.
TimeLimitNode_init(i, lv, t) ==
    [NewNode("time", i) EXCEPT
        !.deadline = IF lv = NoneValue THEN NoneValue ELSE t + lv,
        !.cancel_called = lv # NoneValue /\ t + lv <= t]

\* _TimeLimit.__enter__
TimeLimit_enter(b, i) ==
    Enter(b, "time", i, TimeLimitNode_init(i, limit_value["time"][i], now))

\* _TimeLimit has no limit setter.
TimeLimit_set_limit(i, v) == SetAttribute("time", i, v)

\* _TimeLimitNode.exit, raising for every limit that is not None.
TimeExitIgnoringCancelCalled(ns, lv, n, exc_val) ==
    LET limit == lv["time"][ns[n].limit]
    IN IF limit # NoneValue
       THEN [LimitExceededError("time", limit, limit,
                 Text("Time limit exceeded", "time", FALSE, 0, limit))
             EXCEPT !.node = n, !.cause = exc_val.type]
       ELSE NoExc

\* _TimeLimitNode.exit that raises only when no exception of the body is
\* passed to it (none at all, or the cancellation).
TimeExitDeferringToBody(ns, lv, n, exc_val) ==
    LET limit == lv["time"][ns[n].limit]
    IN IF /\ ns[n].cancel_called /\ limit # NoneValue
          /\ exc_val.type \in {"none", "CancelledError"}
       THEN [LimitExceededError("time", limit, limit,
                 Text("Time limit exceeded", "time", FALSE, 0, limit))
             EXCEPT !.node = n, !.cause = exc_val.type]
       ELSE NoExc

\* _TimeLimitNode.exit: the exception it raises (chained from exc_val),
\* NoExc when it returns.
TimeLimitNode_exit(ns, lv, n, exc_val) ==
    LET limit == lv["time"][ns[n].limit]
    IN IF ns[n].cancel_called /\ limit # NoneValue
       THEN [LimitExceededError("time", limit, limit,
                 Text("Time limit exceeded", "time", FALSE, 0, limit))
             EXCEPT !.node = n, !.cause = exc_val.type]
       ELSE NoExc

\* What propagates out of _TimeLimit.__exit__ if a __exit__ that does
\* not raise suppressed the exception passed to it (returned True).
ExitSuppressing(raised, exc_val) == raised

\* What propagates out of _TimeLimit.__exit__: the exception it raised,
\* else (it returns None) the one that was passed to it.
LeavesExit(raised, exc_val) ==
    IF raised.type # "none" THEN raised ELSE exc_val

\* _TimeLimit.__exit__
TimeLimit_exit(b) ==
    /\ b \in active
    /\ InnermostIs(b, "time")
    /\ LET popped == Tree_get(leaf, b, "time")
           raised == TimeLimitNode_exit(nodes, limit_value, popped, exc[b])
       IN /\ exc' = [exc EXCEPT ![b] = LeavesExit(raised, exc[b])]
          /\ Raise([Call("exit", b) EXCEPT !.kind = "time",
                       !.handle = nodes[popped].limit, !.node = popped],
                   [error |-> raised, visited |-> {}])
    /\ leaf' = Tree_pop_leaf(nodes, leaf, b, "time")
    /\ stack' = [stack EXCEPT ![b] = SubSeq(@, 1, Len(@) - 1)]
    /\ UNCHANGED <<limit_value, nodes, active, now, recorded, inherited,
                   spent, born>>
    /\ script' = ScriptStep

CancelledError == [NoExc EXCEPT !.type = "CancelledError"]

\* The time scopes context b is inside of that have a deadline.
Armed(b) ==
    {n \in ChainSet(nodes, Tree_get(leaf, b, "time")) :
        nodes[n].deadline # NoneValue}

\* The armed scopes of b whose deadline is reached at time t.
Due(b, t) == {n \in Armed(b) : nodes[n].deadline <= t}

\* The deadline timers of the scopes in S run: cancel_called is set.
Fire(S) ==
    [n \in DOMAIN nodes |->
        IF n \in S THEN [nodes[n] EXCEPT !.cancel_called = TRUE]
        ELSE nodes[n]]

\* The suspension is cancelled at time t: the timers due by then have
\* run and CancelledError is raised in the context.
Cancelled(b, t) ==
    /\ nodes' = Fire(Due(b, t))
    /\ now' = t
    /\ exc' = [exc EXCEPT ![b] = CancelledError]
    /\ born' = [born EXCEPT ![b] = Tree_get(leaf, b, "time")]
    /\ last' = [Call("sleep", b) EXCEPT !.error = CancelledError]

\* The suspension ends at time t without being cancelled; the timers in
\* S have run nevertheless.
Resumed(b, t, S) ==
    /\ nodes' = Fire(S)
    /\ now' = t
    /\ last' = Call("sleep", b)
    /\ UNCHANGED <<exc, born>>

\* await asyncio.sleep(d) in context b: a suspension point.  A scope
\* around it that is cancelled, or whose deadline is reached before the
\* sleep is over, cancels it; a deadline that falls on the very instant
\* the sleep ends may or may not win, and its timer may or may not have
\* run by then.
sleep(b, d) ==
    /\ Running(b)
    /\ now + d <= MaxTime
    /\ IF (\E n \in Armed(b) : nodes[n].cancel_called) \/ Due(b, now) # {}
       THEN Cancelled(b, now)
       ELSE IF \E n \in Armed(b) : nodes[n].deadline < now + d
       THEN \E n \in Armed(b) :
               /\ \A m \in Armed(b) : nodes[n].deadline <= nodes[m].deadline
               /\ Cancelled(b, nodes[n].deadline)
       ELSE \/ Due(b, now + d) # {} /\ Cancelled(b, now + d)
            \/ Due(b, now + d) # {} /\ Resumed(b, now + d, Due(b, now + d))
            \/ Resumed(b, now + d, {})
    /\ UNCHANGED <<limit_value, leaf, active, stack, recorded, inherited,
                   spent>>
    /\ script' = ScriptStep

\* The body of context b raises an exception of its own.
body_raises(b) ==
    /\ Running(b)
    /\ exc' = [exc EXCEPT ![b] = [NoExc EXCEPT !.type = "Exception"]]
    /\ born' = [born EXCEPT ![b] = 0]
    /\ last' = [Call("raise", b) EXCEPT
                   !.error = [NoExc EXCEPT !.type = "Exception"]]
    /\ UNCHANGED <<limit_value, nodes, leaf, active, stack, now, recorded,
                   inherited, spent>>
    /\ script' = ScriptStep

\* The exception propagating in context b reaches an except clause (in
\* the tests, pytest.raises) around the innermost block it is still in.
catch(b) ==
    /\ b \in active
    /\ exc[b].type # "none"
    /\ exc' = [exc EXCEPT ![b] = NoExc]
    /\ born' = [born EXCEPT ![b] = 0]
    /\ last' = [Call("catch", b) EXCEPT !.error = exc[b]]
    /\ UNCHANGED <<limit_value, nodes, leaf, active, stack, now, recorded,
                   inherited, spent>>
    /\ script' = ScriptStep

\* ---------------------------------------------------------- apply_limits
\* What a list given to apply_limits may hold: the limit objects, and an
\* implementation of the abstract Limit whose __enter__ raises.
FailingLimit == <<"failing", 0>>
Appliable(K) == (K \X Limits) \cup {FailingLimit}
LimitLists(K) == UNION {[1..m -> Appliable(K)] : m \in 1..MaxApply}

\* The node that __enter__ of limit object i of kind k constructs at
\* clock time t.
LimitNode_new(k, i, lv, t) ==
    IF k = "time" THEN TimeLimitNode_init(i, lv["time"][i], t)
    ELSE IF k = "working"
    THEN [NewNode("working", i) EXCEPT !.start_time = t]
    ELSE NewNode(k, i)

\* The loop of apply_limits: stack.enter_context(limit) for each limit
\* in list order, until one raises.  The result has the nodes and the
\* leaves after it, the nodes it pushed and whether an __enter__ raised.
RECURSIVE ExitStack_enter_context(_, _, _, _, _, _, _)
ExitStack_enter_context(ns, lf, lv, t, b, limits, f) ==
    IF limits = <<>>
    THEN [nodes |-> ns, leaf |-> lf, acquired |-> <<>>, failed |-> FALSE]
    ELSE IF Head(limits) = FailingLimit
    THEN [nodes |-> ns, leaf |-> lf, acquired |-> <<>>, failed |-> TRUE]
    ELSE LET k == Head(limits)[1]
             i == Head(limits)[2]
             n == Len(ns) + 1
             node == [LimitNode_new(k, i, lv, t) EXCEPT
                         !.host = b, !.seen = lv[k][i], !.frame = f]
             rest == ExitStack_enter_context(
                         Tree_push_nodes(ns, lf, b, node),
                         Tree_push_leaf(lf, b, k, n), lv, t, b,
                         Tail(limits), f)
         IN [rest EXCEPT !.acquired = <<n>> \o @]

\* The __exit__ callbacks in the order of their registration.
CallbacksFirstInFirstOut(ns, acquired) ==
    [j \in 1..Len(acquired) |-> ns[acquired[j]].kind]

\* ExitStack.__exit__ calls the registered __exit__ callbacks last in,
\* first out: the kinds of the limits whose __exit__ it calls, in order.
ExitStack_callbacks(ns, acquired) ==
    [j \in 1..Len(acquired) |-> ns[acquired[Len(acquired) + 1 - j]].kind]

\* ExitStack.__exit__ with exception e in flight (NoExc: none): each
\* __exit__ pops its tree's leaf; a time limit's __exit__ may raise, and
\* what it raises replaces e for the callbacks still to be called.  The
\* result has the leaves after it, the exception that leaves it, the
\* nodes popped and the events appended, in order.
RECURSIVE ExitStack_exit(_, _, _, _, _, _)
ExitStack_exit(ns, lf, lv, b, kinds, e) ==
    IF kinds = <<>>
    THEN [leaf |-> lf, exc |-> e, released |-> <<>>, events |-> <<>>]
    ELSE LET k == Head(kinds)
             popped == Tree_get(lf, b, k)
             raised == IF k = "time"
                       THEN TimeLimitNode_exit(ns, lv, popped, e)
                       ELSE NoExc
             rest == ExitStack_exit(ns, Tree_pop_leaf(ns, lf, b, k), lv,
                                    b, Tail(kinds), LeavesExit(raised, e))
         IN [rest EXCEPT
                !.released = <<popped>> \o @,
                !.events = (IF raised.type = "none" THEN <<>>
                            ELSE <<SampleLimitEvent(raised.kind,
                                       raised.limit, raised.args)>>) \o @]

\* The limits of the list that are entered: those before the first one
\* whose __enter__ raises.
RECURSIVE Entering(_)
Entering(limits) ==
    IF limits = <<>> \/ Head(limits) = FailingLimit THEN <<>>
    ELSE <<Head(limits)>> \o Entering(Tail(limits))

\* with apply_limits(limits): up to the yield.  When an __enter__
\* raises, the ExitStack unwinds at once and the exception leaves the
\* with statement, whose body does not run.
apply_limits_enter(b, limits) ==
    /\ Running(b)
    /\ \A j \in 1..Len(Entering(limits)) :
          limit_value[limits[j][1]][limits[j][2]] # Unconstructed
    /\ Len(nodes) + Len(Entering(limits)) <= MaxNodes
    /\ LET r == ExitStack_enter_context(nodes, leaf, limit_value, now, b,
                                        limits, Len(nodes) + 1)
           u == ExitStack_exit(r.nodes, r.leaf, limit_value, b,
                               ExitStack_callbacks(r.nodes, r.acquired),
                               RuntimeError)
           call == [Call("apply_limits", b) EXCEPT
                       !.limits = limits, !.acquired = r.acquired]
       IN /\ nodes' = r.nodes
          /\ recorded' = recorded \o [j \in 1..Len(r.acquired) |-> 0]
          /\ IF r.failed
             THEN /\ leaf' = u.leaf
                  /\ exc' = [exc EXCEPT ![b] = u.exc]
                  /\ last' = [call EXCEPT !.released = u.released,
                                  !.events = u.events, !.error = u.exc]
                  /\ UNCHANGED stack
             ELSE /\ leaf' = r.leaf
                  /\ stack' = [stack EXCEPT ![b] = @ \o r.acquired]
                  /\ last' = call
                  /\ UNCHANGED exc
    /\ UNCHANGED <<limit_value, active, now, inherited, spent, born>>
    /\ script' = ScriptStep

\* The nodes on top of the `with` stack of context b that the innermost
\* apply_limits entered (none when the innermost block is a plain with).
RECURSIVE TopFrame(_, _)
TopFrame(st, f) ==
    IF st = <<>> \/ f = 0 \/ nodes[st[Len(st)]].frame # f THEN <<>>
    ELSE Append(TopFrame(SubSeq(st, 1, Len(st) - 1), f), st[Len(st)])

\* with apply_limits(limits): after the yield, the body having returned
\* or raised: the ExitStack unwinds.
apply_limits_exit(b) ==
    /\ b \in active
    /\ stack[b] # <<>>
    /\ nodes[stack[b][Len(stack[b])]].frame # 0
    /\ LET acquired == TopFrame(stack[b],
                                nodes[stack[b][Len(stack[b])]].frame)
           u == ExitStack_exit(nodes, leaf, limit_value, b,
                               ExitStack_callbacks(nodes, acquired), exc[b])
       IN /\ leaf' = u.leaf
          /\ stack' = [stack EXCEPT ![b] =
                           SubSeq(@, 1, Len(@) - Len(acquired))]
          /\ exc' = [exc EXCEPT ![b] = u.exc]
          /\ last' = [Call("apply_limits_exit", b) EXCEPT
                          !.acquired = acquired, !.released = u.released,
                          !.events = u.events,
                          !.error = IF u.events = <<>> THEN NoExc ELSE u.exc]
    /\ UNCHANGED <<limit_value, nodes, active, now, recorded, inherited,
                   spent, born>>
    /\ script' = ScriptStep

\* ------------------------------------------------------- specifications
\* The trees alone: contexts fork, and enter and exit limits of all kinds.
TreeNext ==
    \/ \E b \in Branches, c \in Branches : Fork(b, c)
    \/ \E b \in Branches, i \in Limits : TokenLimit_enter(b, i)
    \/ \E b \in Branches : TokenLimit_exit(b)
    \/ \E b \in Branches, i \in Limits : MessageLimit_enter(b, i)
    \/ \E b \in Branches : MessageLimit_exit(b)
    \/ \E b \in Branches, i \in Limits : TimeLimit_enter(b, i)
    \/ \E b \in Branches : TimeLimit_exit(b)
    \/ \E b \in Branches, i \in Limits : WorkingTimeLimit_enter(b, i)
    \/ \E b \in Branches : WorkingTimeLimit_exit(b)
    \/ \E b \in Branches : catch(b)

\* (enter and exit read a limit's value only to arm a time limit's
\* deadline, and no time passes here: limit 0 stands for every value)
SpecTree == InitWith(Kinds, {0}) /\ [][TreeNext]_vars

\* Recording from several contexts: token usage and waiting time.
AccountNext ==
    \/ \E b \in Branches, c \in Branches : Fork(b, c)
    \/ \E b \in Branches, i \in Limits : TokenLimit_enter(b, i)
    \/ \E b \in Branches : TokenLimit_exit(b)
    \/ \E b \in Branches, u \in 1..MaxUsage : record_model_usage(b, u)
    \/ \E b \in Branches, i \in Limits : WorkingTimeLimit_enter(b, i)
    \/ \E b \in Branches : WorkingTimeLimit_exit(b)
    \/ \E b \in Branches, w \in 1..MaxUsage : record_waiting_time(b, w)

\* (recording reads no limit value)
SpecAccount ==
    InitWith({"token", "working"}, {NoneValue}) /\ [][AccountNext]_vars

\* Token limits in one context.
TokenNext ==
    \/ \E i \in Limits : TokenLimit_enter(1, i)
    \/ TokenLimit_exit(1)
    \/ \E u \in 1..MaxUsage : record_model_usage(1, u)
    \/ check_token_limit(1)

SpecToken == InitWith({"token"}, LimitValues) /\ [][TokenNext]_vars

\* Token limits in forked contexts.
ShareNext ==
    \/ \E b \in Branches, c \in Branches : Fork(b, c)
    \/ \E b \in Branches, i \in Limits : TokenLimit_enter(b, i)
    \/ \E b \in Branches : TokenLimit_exit(b)
    \/ \E b \in Branches, u \in 1..MaxUsage : record_model_usage(b, u)
    \/ \E b \in Branches : check_token_limit(b)

\* (where recorded usage goes does not depend on the limit values: one
\* finite value and None are enough for a check to raise or to pass)
SpecShare == InitWith({"token"}, {NoneValue, 1}) /\ [][ShareNext]_vars

\* Message limits in one context.
MessageNext ==
    \/ \E i \in Limits : MessageLimit_enter(1, i)
    \/ MessageLimit_exit(1)
    \/ \E i \in Limits, v \in LimitArgs : MessageLimit_set_limit(i, v)
    \/ \E c \in 0..MaxCount, s \in BOOLEAN : check_message_limit(1, c, s)

SpecMessage == InitWith({"message"}, LimitValues) /\ [][MessageNext]_vars

\* Time limits in one context.
TimeNext ==
    \/ \E i \in Limits : TimeLimit_enter(1, i)
    \/ TimeLimit_exit(1)
    \/ \E d \in 0..MaxTime : sleep(1, d)
    \/ \E d \in 1..MaxTime : advance(1, d)
    \/ body_raises(1)
    \/ catch(1)

SpecTime == InitWith({"time"}, LimitValues) /\ [][TimeNext]_vars

\* Working-time limits in one context, under the mocked clock.
WorkingNext ==
    \/ \E i \in Limits : WorkingTimeLimit_enter(1, i)
    \/ WorkingTimeLimit_exit(1)
    \/ \E w \in 1..MaxUsage : record_waiting_time(1, w)
    \/ check_working_time_limit(1)
    \/ \E d \in 1..MaxAdvance : MockTime_advance(1, d)

\* (the limit of the tests' sequences; what differs between the nodes is
\* when they started and how much waiting time they have seen)
SpecWorking == InitWith({"working"}, {1}) /\ [][WorkingNext]_vars

\* apply_limits over token and time limits in one context.
ApplyNext ==
    \/ \E limits \in LimitLists({"token", "time"}) :
          apply_limits_enter(1, limits)
    \/ apply_limits_exit(1)
    \/ body_raises(1)
    \/ catch(1)

\* (a time limit of 0 has fired when it is entered, one of None never
\* does; a token limit's value is not read here)
SpecApply ==
    InitWith({"token", "time"}, {NoneValue, 0}) /\ [][ApplyNext]_vars

\* One token limit, whose value is changed while two contexts use it.
LiveNext ==
    \/ Fork(1, 2)
    \/ \E b \in {1, 2} : TokenLimit_enter(b, 1)
    \/ \E b \in {1, 2} : TokenLimit_exit(b)
    \/ \E b \in {1, 2}, u \in 1..MaxUsage : record_model_usage(b, u)
    \/ \E b \in {1, 2} : check_token_limit(b)
    \/ \E v \in LimitArgs : TokenLimit_set_limit(1, v)

SpecLive == InitWith({"token"}, {MaxBound}) /\ [][LiveNext]_vars

\* Constructing one limit object of each kind and assigning its limit.
ConfigNext ==
    \/ \E k \in Kinds, v \in LimitArgs : Construct(k, 1, v)
    \/ \E v \in LimitArgs : TokenLimit_set_limit(1, v)
    \/ \E v \in LimitArgs : MessageLimit_set_limit(1, v)
    \/ \E v \in LimitArgs : TimeLimit_set_limit(1, v)
    \/ \E v \in LimitArgs : WorkingTimeLimit_set_limit(1, v)

SpecConfig == Init /\ [][ConfigNext]_vars

\* One limit object of each kind, all with the same value, used in one
\* context: every entry point of the module.
LimitsNext ==
    \/ TokenLimit_enter(1, 1)
    \/ TokenLimit_exit(1)
    \/ \E u \in 1..MaxUsage : record_model_usage(1, u)
    \/ check_token_limit(1)
    \/ MessageLimit_enter(1, 1)
    \/ MessageLimit_exit(1)
    \/ \E c \in 0..MaxCount, s \in BOOLEAN : check_message_limit(1, c, s)
    \/ WorkingTimeLimit_enter(1, 1)
    \/ WorkingTimeLimit_exit(1)
    \/ \E w \in 1..MaxUsage : record_waiting_time(1, w)
    \/ check_working_time_limit(1)
    \/ TimeLimit_enter(1, 1)
    \/ TimeLimit_exit(1)
    \/ \E d \in 1..MaxTime : advance(1, d)
    \/ \E d \in 0..MaxTime : sleep(1, d)
    \/ catch(1)

SpecLimits ==
    /\ \E v \in LimitValues : InitWith(Kinds, {v})
    /\ [][LimitsNext]_vars

\* The tree in several contexts, with __exit__ calls that find it empty.
PopNext ==
    \/ TreeNext
    \/ \E b \in Branches, k \in Kinds : Tree_pop_empty(b, k)

SpecPop == InitWith(Kinds, {0}) /\ [][PopNext]_vars

\* Token, time and working-time limits in one context: limit object 1
\* of each kind has the limit 1 and limit object 2 the limit of the
\* tests' inner scopes, which nothing reaches.
ReleaseNext ==
    \/ \E i \in Limits : TokenLimit_enter(1, i)
    \/ TokenLimit_exit(1)
    \/ \E u \in 1..MaxUsage : record_model_usage(1, u)
    \/ check_token_limit(1)
    \/ \E i \in Limits : WorkingTimeLimit_enter(1, i)
    \/ WorkingTimeLimit_exit(1)
    \/ check_working_time_limit(1)
    \/ \E i \in Limits : TimeLimit_enter(1, i)
    \/ TimeLimit_exit(1)
    \/ \E d \in 1..MaxTime : advance(1, d)
    \/ \E d \in 0..MaxTime : sleep(1, d)
    \/ catch(1)

ReleaseInit ==
    /\ InitWith({"token", "time", "working"}, {1, InnerLimit})
    /\ \A k \in {"token", "time", "working"} :
          limit_value[k][1] = 1 /\ limit_value[k][2] = InnerLimit

SpecRelease == ReleaseInit /\ [][ReleaseNext]_vars

\* ================================================================ claims
\* The value wrapped by the limit object node n was created from.
BoundOf(n) == limit_value[nodes[n].kind][nodes[n].limit]

\* The last call raised a LimitExceededError.
Violation == last.error.type = "LimitExceededError"

\* C1: in every tree, a forked context starts with its creator's leaf,
\* and a push or pop (enter or exit) in one context leaves the leaf of
\* every other context, parent and siblings alike, unchanged.
C1_LeafIsBranchLocal ==
    [][/\ last'.op = "fork" =>
            /\ leaf'[last'.child] = leaf[last'.branch]
            /\ \A c \in Branches \ {last'.child} : leaf'[c] = leaf[c]
       /\ last'.op \in {"enter", "exit"} =>
            \A c \in Branches \ {last'.branch} : leaf'[c] = leaf[c]
       /\ last'.op \notin {"fork", "enter", "exit"} => leaf' = leaf]_vars

\* C1 witness: contexts 2 and 3 were forked under node 1; context 2 has
\* just pushed node 2, and 1 and 3 still have node 1 as their leaf.
C1_Witness ==
    \E k \in Kinds :
        /\ active = {1, 2, 3}
        /\ inherited[2][k] = 1 /\ inherited[3][k] = 1
        /\ last.op = "enter" /\ last.branch = 2 /\ last.kind = k
        /\ leaf[2][k] = 2 /\ leaf[1][k] = 1 /\ leaf[3][k] = 1

\* C2: write-through.  Every token node's total and every working-time
\* node's waiting time is the sum of the amounts recorded while the node
\* was on the recording context's chain, so a parent has at least as
\* much as each of its children.
C2_WriteThrough ==
    \A n \in DOMAIN nodes :
        /\ nodes[n].kind = "token" => nodes[n].usage = recorded[n]
        /\ nodes[n].kind = "working" => nodes[n].waiting_time = recorded[n]
        /\ nodes[n].parent # 0 =>
              /\ nodes[nodes[n].parent].usage >= nodes[n].usage
              /\ nodes[nodes[n].parent].waiting_time >= nodes[n].waiting_time

\* C2 witness: waiting time was just recorded into a child node whose
\* parent had already accumulated some on its own.
C2_Witness ==
    /\ last.op = "record_waiting_time"
    /\ last.node # 0
    /\ nodes[last.node].parent # 0
    /\ nodes[last.node].waiting_time > 0
    /\ nodes[nodes[last.node].parent].waiting_time
          > nodes[last.node].waiting_time

\* A token node is over its limit.
TokenOver(n) == BoundOf(n) # NoneValue /\ nodes[n].usage > BoundOf(n)

\* C3: check_token_limit raises exactly when some node of the chain is
\* over a finite limit (a total equal to the limit is not over it); the
\* error carries the total and the limit of the violating node nearest
\* to the leaf, and no node above that one has been evaluated.
C3_CheckNearestViolation ==
    (last.op = "check_token_limit" /\ last.node # 0) =>
        LET ch == Chain(nodes, last.node)
            over == {j \in 1..Len(ch) : TokenOver(ch[j])}
        IN IF over = {}
           THEN /\ last.error = NoExc
                /\ last.visited = ChainSet(nodes, last.node)
           ELSE LET j == CHOOSE m \in over : \A o \in over : m <= o
                IN /\ Violation
                   /\ last.error.kind = "token"
                   /\ last.error.node = ch[j]
                   /\ last.error.value = nodes[ch[j]].usage
                   /\ last.error.limit = BoundOf(ch[j])
                   /\ last.visited = {ch[m] : m \in 1..j}
                   /\ last.visited \cap Ancestors(nodes, ch[j]) = {}

\* C3 witness: the inner node passes with its total equal to its limit
\* and the walk goes on to the outer node, which raises.
C3_Witness ==
    /\ last.op = "check_token_limit"
    /\ Violation
    /\ last.node # 0
    /\ last.error.node = nodes[last.node].parent
    /\ nodes[last.node].usage = BoundOf(last.node)
    /\ last.error.value > last.error.limit

\* C4: usage recorded by a context is added to every node that was on
\* its creator's chain when it was forked, and to no node that another
\* context pushed outside that chain.
C4_SharedAncestorsOnly ==
    [][last'.op = "record_model_usage" =>
          LET b == last'.branch
              u == spent'[b] - spent[b]
              shared == ChainSet(nodes, inherited[b]["token"])
          IN /\ \A n \in shared : nodes'[n].usage = nodes[n].usage + u
             /\ shared # {} => u > 0
             /\ \A n \in DOMAIN nodes :
                   (nodes[n].host # b /\ n \notin shared) =>
                       nodes'[n].usage = nodes[n].usage]_vars

\* C4 witness: contexts 2 and 3 were forked under node 1; only context 2
\* has recorded tokens; context 3, inside a node of its own that received
\* none of them, checks and the shared node 1 raises.
C4_Witness ==
    /\ inherited[2]["token"] = 1 /\ inherited[3]["token"] = 1
    /\ spent[1] = 0 /\ spent[2] > 0 /\ spent[3] = 0
    /\ last.op = "check_token_limit" /\ last.branch = 3
    /\ last.node = 2 /\ nodes[2].host = 3 /\ nodes[2].usage = 0
    /\ Violation /\ last.error.node = 1

\* A count is allowed by a limit value under the given strictness.
MessageAllowed(count, strict, bound) ==
    \/ bound = NoneValue
    \/ count < bound
    \/ count = bound /\ ~strict

\* C5: check_message_limit looks at the nearest open message scope only:
\* it evaluates that node and no other, raises only for it, and returns
\* whenever the count is allowed by that node's limit, whatever the
\* limits of the scopes around it.
C5_NearestMessageScopeOnly ==
    (last.op = "check_message_limit" /\ last.node # 0) =>
        /\ last.visited = {last.node}
        /\ Violation => /\ last.error.node = last.node
                        /\ last.error.limit = BoundOf(last.node)
        /\ MessageAllowed(last.arg, last.strict, BoundOf(last.node))
              => last.error = NoExc

\* C5 witness: the count is over the outer scope's limit and within the
\* inner one's; the check, not strict, returns.
C5_Witness ==
    /\ last.op = "check_message_limit"
    /\ last.node # 0
    /\ nodes[last.node].parent # 0
    /\ ~last.strict
    /\ BoundOf(nodes[last.node].parent) # NoneValue
    /\ BoundOf(last.node) # NoneValue
    /\ last.arg > BoundOf(nodes[last.node].parent)
    /\ last.arg <= BoundOf(last.node)
    /\ last.error = NoExc

\* C6: against a finite limit b, a strict check of count c raises
\* exactly when c >= b and a non-strict one exactly when c > b; the
\* error has value c and limit b, and its text says "reached" when
\* c = b and "exceeded" when c > b.
C6_StrictComparison ==
    (last.op = "check_message_limit" /\ last.node # 0
        /\ BoundOf(last.node) # NoneValue) =>
        LET c == last.arg
            b == BoundOf(last.node)
        IN /\ Violation <=> IF last.strict THEN c >= b ELSE c > b
           /\ ~Violation => last.error = NoExc
           /\ Violation =>
                 /\ last.error.kind = "message"
                 /\ last.error.value = c
                 /\ last.error.limit = b
                 /\ last.error.args.value = c
                 /\ last.error.args.limit = b
                 /\ c = b <=> last.error.args.head = "Message limit reached"
                 /\ c > b <=> last.error.args.head = "Message limit exceeded"

\* C6 witness: a strict check with the count equal to the limit raises
\* with the "reached" text.
C6_Witness ==
    /\ last.op = "check_message_limit"
    /\ last.strict
    /\ last.node # 0
    /\ last.arg = BoundOf(last.node)
    /\ Violation
    /\ last.error.args.head = "Message limit reached"

\* C7: _TimeLimit.__exit__ raises a violation exactly when the scope's
\* own deadline fired (cancel_called, which implies that the deadline
\* exists and is reached) and its limit is not None; the violation is of
\* kind "time" with value = limit = the scope's limit; otherwise the exit
\* raises nothing and appends no event, however much time has passed.
C7_TimeExitRaisesIffFired ==
    (last.op = "exit" /\ last.kind = "time") =>
        LET n == last.node
        IN /\ Violation <=> (nodes[n].cancel_called /\ BoundOf(n) # NoneValue)
           /\ nodes[n].cancel_called =>
                 /\ nodes[n].deadline # NoneValue
                 /\ nodes[n].deadline <= now
           /\ Violation =>
                 /\ last.error.kind = "time"
                 /\ last.error.value = BoundOf(n)
                 /\ last.error.limit = BoundOf(n)
                 /\ last.error.node = n
           /\ ~Violation => last.error = NoExc /\ last.events = <<>>

\* C7 witness: a scope with a positive limit is exited after its
\* deadline fired during a sleep, and raises.
C7_Witness ==
    /\ last.op = "exit" /\ last.kind = "time"
    /\ Violation
    /\ last.error.value > 0
    /\ last.error.cause = "CancelledError"

\* One of two scopes has the nearer deadline.
NotLater(f, g) ==
    \/ nodes[g].deadline = NoneValue
    \/ nodes[f].deadline # NoneValue /\ nodes[f].deadline <= nodes[g].deadline

\* C8: a sleep inside two nested time scopes (outer o, inner i) was
\* cancelled, what it raised has left both scopes without being caught,
\* and the deadline of exactly one of them fired.  Then what leaves the
\* outer scope is the time violation of the scope that fired, with that
\* scope's limit as value, and that scope has the nearer deadline; the
\* other scope has neither raised a violation of its own nor suppressed
\* what was passing through it.
C8_NearerDeadlineAttributed ==
    \A b \in active :
        LET i == born[b]
            o == IF i = 0 THEN 0 ELSE nodes[i].parent
        IN (/\ i # 0 /\ o # 0
            /\ nodes[o].parent = 0
            /\ stack[b] = <<>>
            /\ nodes[i].cancel_called # nodes[o].cancel_called) =>
               LET f == IF nodes[i].cancel_called THEN i ELSE o
                   g == IF nodes[i].cancel_called THEN o ELSE i
               IN /\ exc[b].type = "LimitExceededError"
                  /\ exc[b].kind = "time"
                  /\ exc[b].node = f
                  /\ exc[b].value = BoundOf(f)
                  /\ exc[b].limit = BoundOf(f)
                  /\ exc[b].cause # "LimitExceededError"
                  /\ NotLater(f, g)

\* C8 witness: a sleep inside both scopes was cancelled by the outer
\* scope's deadline, the nearer one; the cancellation went through the
\* inner scope's exit and the outer scope's exit turned it into the
\* violation.
C8_Witness ==
    /\ born[1] # 0
    /\ nodes[born[1]].parent # 0
    /\ stack[1] = <<>>
    /\ last.op = "exit"
    /\ last.node = nodes[born[1]].parent
    /\ nodes[last.node].cancel_called
    /\ ~nodes[born[1]].cancel_called
    /\ nodes[born[1]].deadline # NoneValue
    /\ nodes[last.node].deadline < nodes[born[1]].deadline
    /\ exc[1].type = "LimitExceededError"
    /\ exc[1].node = last.node
    /\ exc[1].cause = "CancelledError"

\* C9 (as claimed): entering a time limit object that has been entered
\* before, released or still open, raises a RuntimeError.
C9_TimeLimitSingleUse ==
    (last.op = "enter" /\ last.kind = "time"
        /\ Entered("time", last.handle) >= 2) =>
        last.error.type = "RuntimeError"

\* C10 (as claimed): entering a message limit object that has been
\* entered before raises an error and pushes no second node.
C10_MessageLimitSingleUse ==
    (last.op = "enter" /\ last.kind = "message") =>
        /\ Entered("message", last.handle) <= 1
        /\ Entered("message", last.handle) = 1 => last.error = NoExc

\* C10 (amended): a message limit object can be entered any number of
\* times, released or still open: every enter returns without error and
\* pushes a fresh node, on top of the context's previous leaf, that
\* refers to the object's one value wrapper.
C10_MessageLimitReentrant ==
    (last.op = "enter" /\ last.kind = "message") =>
        /\ last.error = NoExc
        /\ last.node = Len(nodes)
        /\ Tree_get(leaf, last.branch, "message") = last.node
        /\ nodes[last.node].kind = "message"
        /\ nodes[last.node].limit = last.handle
        /\ nodes[last.node].parent < last.node

\* C10 witness: the same message limit object entered inside itself.
C10_Witness ==
    /\ last.op = "enter" /\ last.kind = "message"
    /\ last.error = NoExc
    /\ nodes[last.node].parent # 0
    /\ nodes[nodes[last.node].parent].limit = last.handle
    /\ Entered("message", last.handle) = 2

\* The working time of node n at the current clock time.
WorkingTime(n) == now - nodes[n].start_time - nodes[n].waiting_time

\* A working-time node is over its limit.
WorkingOver(n) == BoundOf(n) # NoneValue /\ WorkingTime(n) > BoundOf(n)

\* C11: check_working_time_limit at clock time T computes, for a node
\* with start time S and waiting time W, working = T - S - W, and raises
\* exactly when working > limit for some node of the chain (working equal
\* to the limit is not over it); the error is of kind "working" and
\* carries the working time and the limit of the violating node nearest
\* to the leaf.
C11_WorkingTimeCheck ==
    (last.op = "check_working_time_limit" /\ last.node # 0) =>
        LET ch == Chain(nodes, last.node)
            over == {j \in 1..Len(ch) : WorkingOver(ch[j])}
        IN IF over = {}
           THEN last.error = NoExc
           ELSE LET j == CHOOSE m \in over : \A o \in over : m <= o
                IN /\ Violation
                   /\ last.error.kind = "working"
                   /\ last.error.node = ch[j]
                   /\ last.error.value = WorkingTime(ch[j])
                   /\ last.error.limit = BoundOf(ch[j])

\* C11 witness: limit 1, the clock at 12 with 2 of waiting recorded:
\* the check raises with value 10.
C11_Witness ==
    /\ last.op = "check_working_time_limit"
    /\ Violation
    /\ last.error.node = last.node
    /\ nodes[last.node].start_time = 0
    /\ nodes[last.node].waiting_time = 2
    /\ now = 12
    /\ last.error.value = 10
    /\ last.error.limit = 1

\* C12 (as claimed): in one working-time scope with limit 1, after
\* advance 5, check, record_waiting_time(2), advance 10, the second
\* check raises with value 10.
C12_SecondCheckValueTen ==
    script = 6 => (Violation /\ last.error.value = 10)

\* C12 (amended): in that sequence the first check raises with value 5
\* and limit 1, and the second check, 15 after the scope was entered
\* with 2 of waiting recorded, raises with value 13 = 15 - 2 and limit 1.
C12_SecondCheckValueThirteen ==
    /\ script = 3 =>
          /\ Violation
          /\ last.error.kind = "working"
          /\ last.error.value = 5
          /\ last.error.limit = 1
    /\ script = 6 =>
          /\ Violation
          /\ last.error.kind = "working"
          /\ last.error.node = last.node
          /\ nodes[last.node].waiting_time = 2
          /\ now - nodes[last.node].start_time = 15
          /\ last.error.value = 13
          /\ last.error.limit = 1

\* C12 witness: the sequence has been run to its end.
C12_Witness ==
    /\ script = 6
    /\ last.op = "check_working_time_limit"
    /\ Violation
    /\ last.error.value = 13

\* A sequence in reverse order.
Reverse(q) == [j \in 1..Len(q) |-> q[Len(q) + 1 - j]]

\* apply_limits has entered the limits of the list in list order, up to
\* the first whose __enter__ raises: the nodes it pushed are new, were
\* created in list order and belong to the limits of the list.
AcquiredInListOrder ==
    LET ent == Entering(last'.limits)
        acq == last'.acquired
    IN /\ Len(acq) = Len(ent)
       /\ \A j \in 1..Len(acq) :
             /\ acq[j] = Len(nodes) + j
             /\ nodes'[acq[j]].kind = ent[j][1]
             /\ nodes'[acq[j]].limit = ent[j][2]

\* An __enter__ of the list raised.
AcquireFailed == Len(Entering(last'.limits)) < Len(last'.limits)

\* Exactly the acquired nodes were released, last acquired first, and
\* the context is where it was before they were acquired.
ReleasedInReverse(before) ==
    /\ last'.released = Reverse(last'.acquired)
    /\ stack'[last'.branch] = before
    /\ \A k \in Kinds :
          LET mine == {n \in DOMAIN nodes' :
                          /\ \E j \in 1..Len(last'.acquired) :
                                n = last'.acquired[j]
                          /\ nodes'[n].kind = k}
          IN leaf'[last'.branch][k] =
                IF mine = {} THEN leaf[last'.branch][k]
                ELSE nodes'[CHOOSE n \in mine :
                               \A m \in mine : n <= m].parent

\* C13 (as claimed): apply_limits acquires in list order; on every exit
\* path it releases exactly what it acquired, in reverse order; and when
\* an acquisition fails, the failure of that acquisition is what
\* propagates.
C13_ApplyLimitsPropagatesFailure ==
    [][/\ last'.op = "apply_limits" =>
            /\ AcquiredInListOrder
            /\ IF AcquireFailed
               THEN /\ ReleasedInReverse(stack[last'.branch])
                    /\ exc'[last'.branch] = RuntimeError
               ELSE /\ last'.released = <<>>
                    /\ stack'[last'.branch] =
                          stack[last'.branch] \o last'.acquired
                    /\ exc' = exc
       /\ last'.op = "apply_limits_exit" =>
            /\ last'.acquired # <<>>
            /\ stack[last'.branch] =
                  stack'[last'.branch] \o last'.acquired
            /\ ReleasedInReverse(stack'[last'.branch])]_vars

\* C13, the part that holds: the same, where what propagates after a
\* failed acquisition is the failure itself or, when the release of a
\* time limit whose deadline had fired raised, that limit's violation.
C13_ApplyLimitsReleasesInReverse ==
    [][/\ last'.op = "apply_limits" =>
            /\ AcquiredInListOrder
            /\ IF AcquireFailed
               THEN /\ ReleasedInReverse(stack[last'.branch])
                    /\ \/ exc'[last'.branch] = RuntimeError
                       \/ /\ exc'[last'.branch].type = "LimitExceededError"
                          /\ exc'[last'.branch].kind = "time"
                          /\ \E j \in 1..Len(last'.released) :
                                /\ exc'[last'.branch].node = last'.released[j]
                                /\ nodes'[last'.released[j]].cancel_called
               ELSE /\ last'.released = <<>>
                    /\ stack'[last'.branch] =
                          stack[last'.branch] \o last'.acquired
                    /\ exc' = exc
       /\ last'.op = "apply_limits_exit" =>
            /\ last'.acquired # <<>>
            /\ stack[last'.branch] =
                  stack'[last'.branch] \o last'.acquired
            /\ ReleasedInReverse(stack'[last'.branch])]_vars

\* C13 witness: apply_limits([a, b, c]) where b's __enter__ raised: a
\* was acquired and released, c was not acquired, and b's failure
\* propagates.
C13_Witness ==
    /\ last.op = "apply_limits"
    /\ Len(last.limits) = 3
    /\ last.limits[2] = FailingLimit
    /\ last.limits[3] # FailingLimit
    /\ Len(last.acquired) = 1
    /\ last.released = last.acquired
    /\ exc[1] = RuntimeError

\* C13 witness of the divergence: a is a time limit of 0; its release
\* raised its violation in place of b's failure.
C13_ViolationReplacesFailure ==
    /\ last.op = "apply_limits"
    /\ Len(last.limits) = 3
    /\ last.limits[2] = FailingLimit
    /\ Len(last.acquired) = 1
    /\ last.released = last.acquired
    /\ exc[1].type = "LimitExceededError"
    /\ exc[1].cause = "RuntimeError"

\* C14: the limit setter stores the value and does nothing else: it
\* runs no check, raises no violation and appends no event, whatever
\* usage the nodes have; and every check_token_limit, in whichever
\* context, raises exactly when some node of its chain is over the value
\* its limit object has at the time of the check, with that value as the
\* error's limit.
C14_BoundReadLive ==
    [][/\ last'.op = "set_limit" =>
            /\ ~Validate_rejects(last'.arg) =>
                  /\ limit_value'[last'.kind][last'.handle] = last'.arg
                  /\ last'.error = NoExc
            /\ last'.error.type # "LimitExceededError"
            /\ last'.events = <<>>
            /\ last'.visited = {}
            /\ nodes' = nodes /\ leaf' = leaf /\ exc' = exc
       /\ (last'.op = "check_token_limit" /\ last'.node # 0) =>
            LET over == {n \in ChainSet(nodes, last'.node) :
                           /\ limit_value["token"][nodes[n].limit]
                                 # NoneValue
                           /\ nodes[n].usage
                                 > limit_value["token"][nodes[n].limit]}
            IN /\ last'.error.type = "LimitExceededError" <=> over # {}
               /\ over # {} =>
                     /\ last'.error.node \in over
                     /\ last'.error.limit =
                           limit_value["token"][
                               nodes[last'.error.node].limit]]_vars

\* C14 witness: context 2, forked inside node 1 of context 1, checks
\* after the limit was lowered: node 1 raises against the new value,
\* with usage that the value it was entered with allowed.
C14_Witness ==
    /\ last.op = "check_token_limit" /\ last.branch = 2
    /\ Violation
    /\ last.error.node = 1
    /\ nodes[1].host = 1
    /\ nodes[1].seen # NoneValue
    /\ nodes[1].usage <= nodes[1].seen
    /\ last.error.limit = BoundOf(1)
    /\ last.error.limit < nodes[1].seen

\* A negative number (None is not one).
Negative(v) == v # NoneValue /\ v < 0

\* The outcome of a validated store of last'.arg: a negative number is
\* rejected with ValueError and the value stays what it was; None and
\* every non-negative number are stored.
ValidatedStore ==
    /\ Negative(last'.arg) =>
          /\ last'.error = ValueError
          /\ limit_value' = limit_value
    /\ ~Negative(last'.arg) =>
          /\ last'.error = NoExc
          /\ limit_value' = [limit_value EXCEPT
                                ![last'.kind][last'.handle] = last'.arg]

\* C15 (as claimed): for all four kinds, constructing a limit with, and
\* assigning to a limit, a negative number raises ValueError and leaves
\* the value as it was; None is always accepted.
C15_NegativeRejectedEverywhere ==
    [][last'.op \in {"construct", "set_limit"} => ValidatedStore]_vars

\* C15 (amended): that holds for the constructors of all four kinds and
\* for the limit setter of token and message limits.  Time and working
\* time limits have no setter: assigning their limit raises nothing,
\* for no value, and leaves the value as it was.
C15_NegativeRejectedWhereSettable ==
    [][/\ last'.op = "construct" => ValidatedStore
       /\ (last'.op = "set_limit" /\ last'.kind \in {"token", "message"})
             => ValidatedStore
       /\ (last'.op = "set_limit" /\ last'.kind \in {"time", "working"})
             => /\ last'.error = NoExc
                /\ limit_value' = limit_value]_vars

\* C15 witness: a message limit constructed with a valid value has just
\* rejected -1 and kept its value, after a time limit's construction
\* with -1 was rejected.
C15_Witness ==
    /\ last.op = "set_limit" /\ last.kind = "message"
    /\ last.arg = -1
    /\ last.error = ValueError
    /\ limit_value["message"][1] = MaxBound
    /\ limit_value["time"][1] = Unconstructed

\* The call just made releases the scope that the call before it
\* acquired: nothing was recorded or checked, and nothing suspended, in
\* between.
ReleasedAtOnce ==
    /\ last.op = "enter"
    /\ last'.op = "exit"
    /\ last'.node = last.node

\* C16 (as claimed): for every kind and every limit value, 0 included,
\* entering a limit raises nothing, and so does exiting it at once.
C16_AcquireReleaseNeverRaises ==
    [][/\ last'.op = "enter" => last'.error = NoExc
       /\ ReleasedAtOnce =>
             /\ last'.error = NoExc
             /\ exc'[last'.branch] = NoExc]_vars

\* C16, the part that holds: entering never raises; exiting at once
\* raises nothing for a token, message or working time limit of any
\* value and for a time limit of None or of a positive value.  A time
\* limit of 0 raises its violation.
C16_OnlyZeroTimeLimitRaises ==
    [][/\ last'.op = "enter" => last'.error = NoExc
       /\ ReleasedAtOnce =>
             IF last'.kind = "time" /\ BoundOf(last'.node) = 0
             THEN /\ last'.error.type = "LimitExceededError"
                  /\ last'.error.kind = "time"
                  /\ last'.error.value = 0
                  /\ last'.error.limit = 0
                  /\ exc'[last'.branch] = last'.error
             ELSE /\ last'.error = NoExc
                  /\ exc'[last'.branch] = NoExc]_vars

\* C16 witness of the divergence: the first call entered a time limit
\* of 0 and the second exited it; no time has passed and nothing was
\* propagating; the exit raised.
C16_ZeroTimeLimitRaisesOnRelease ==
    /\ last.op = "exit" /\ last.kind = "time"
    /\ Len(nodes) = 1
    /\ now = 0
    /\ BoundOf(1) = 0
    /\ Violation
    /\ last.error.cause = "none"
    /\ exc[1] = last.error

\* C17: a token or working time limit can be entered any number of
\* times, after it was exited and while it is open: every enter returns
\* without error and pushes, onto the context's leaf, a fresh node with
\* no usage and no waiting time, started at the current clock time, that
\* refers to the limit object (and so to its one value); the nodes that
\* exist keep what they have.
C17_TokenAndWorkingReentrant ==
    [][(last'.op = "enter" /\ last'.kind \in {"token", "working"}) =>
          LET n == last'.node
              b == last'.branch
          IN /\ last'.error = NoExc
             /\ n = Len(nodes) + 1
             /\ Len(nodes') = n
             /\ nodes'[n].kind = last'.kind
             /\ nodes'[n].limit = last'.handle
             /\ nodes'[n].usage = 0
             /\ nodes'[n].waiting_time = 0
             /\ last'.kind = "working" => nodes'[n].start_time = now
             /\ nodes'[n].parent = leaf[b][last'.kind]
             /\ leaf'[b][last'.kind] = n
             /\ \A m \in DOMAIN nodes : nodes'[m] = nodes[m]
             /\ limit_value' = limit_value]_vars

\* C17 witness: a working time limit entered inside itself, after time
\* has passed and waiting time was recorded in the outer scope.
C17_Witness ==
    /\ last.op = "enter" /\ last.kind = "working"
    /\ last.error = NoExc
    /\ nodes[last.node].parent # 0
    /\ nodes[nodes[last.node].parent].limit = last.handle
    /\ nodes[nodes[last.node].parent].waiting_time > 0
    /\ nodes[last.node].waiting_time = 0
    /\ nodes[last.node].start_time = now
    /\ nodes[last.node].start_time > nodes[nodes[last.node].parent].start_time

\* The last call raised a limit violation (catch reports the exception
\* it caught, which an earlier call raised).
ViolationRaised == Violation /\ last.op # "catch"

\* C18: a call that raises a limit violation has appended exactly one
\* event to the transcript, with the violation's type and limit (and the
\* message text the violation was raised with); a call that raises no
\* violation (a passing check, a record, an enter, an exit that does not
\* raise) has appended none.
C18_OneEventPerViolation ==
    IF ViolationRaised
    THEN /\ Len(last.events) = 1
         /\ last.events[1].type = last.error.kind
         /\ last.events[1].limit = last.error.limit
         /\ last.events[1].message = last.error.args
    ELSE last.events = <<>>

\* C18 witness: the exit of a time limit whose deadline cancelled the
\* body raised the violation, with its one event.
C18_Witness ==
    /\ ViolationRaised
    /\ last.op = "exit" /\ last.error.kind = "time"
    /\ last.events = <<SampleLimitEvent("time", last.error.limit,
                                        last.error.args)>>

\* The number v can be read in a formatted message: it is the measured
\* value or the limit that the text embeds.
Shows(text, v) == (text.has_value /\ text.value = v) \/ text.limit = v

\* C19: the message attribute of a raised violation embeds its type,
\* its measured value and its limit.
C19_MessageEmbedsKindValueBound ==
    ViolationRaised =>
        /\ last.error.message.type = last.error.kind
        /\ Shows(last.error.message, last.error.value)
        /\ last.error.message.limit = last.error.limit

\* C19 divergence: a token check raised with a total above the limit;
\* the text given to the constructor embeds the total, the message
\* attribute does not.
C19_MessageFieldOmitsValue ==
    /\ ViolationRaised
    /\ last.op = "check_token_limit"
    /\ last.error.value > last.error.limit
    /\ Shows(last.error.args, last.error.value)
    /\ ~Shows(last.error.message, last.error.value)
    /\ last.error.message = Text("Exceeded", "token", FALSE, 0,
                                 last.error.limit)

\* The module-level functions that start from the leaf of a tree.
EntryPoints ==
    {"record_model_usage", "check_token_limit", "check_message_limit",
     "record_waiting_time", "check_working_time_limit"}

\* C20: record_model_usage, check_token_limit, check_message_limit,
\* record_waiting_time and check_working_time_limit, called in a context
\* whose leaf of that kind is None, return without error, append no
\* event, evaluate no node and leave limit values, nodes, leaves, the
\* clock and the exception in flight as they were, whatever the argument.
C20_NoScopeNoEffect ==
    [][(last'.op \in EntryPoints /\ last'.node = 0) =>
          /\ last'.error = NoExc
          /\ last'.events = <<>>
          /\ last'.visited = {}
          /\ UNCHANGED <<limit_value, nodes, leaf, active, stack, now, exc,
                         recorded, inherited, spent, born>>]_vars

\* C20 witness: check_message_limit was called with a count above the
\* message limit's value and raise_for_equal set, with no message limit
\* open while a token limit that has usage is open, and returned.
C20_Witness ==
    /\ last.op = "check_message_limit" /\ last.node = 0
    /\ last.strict
    /\ limit_value["message"][1] # NoneValue
    /\ last.arg > limit_value["message"][1]
    /\ last.error = NoExc
    /\ leaf[1]["token"] # 0
    /\ nodes[leaf[1]["token"]].usage > 0

\* Node n has been popped: the `with` block that pushed it, in the
\* context that entered it, has been left.
Detached(n) ==
    \A j \in 1..Len(stack[nodes[n].host]) : stack[nodes[n].host][j] # n

\* C21: once a node has been popped, no call made in any context changes
\* its accumulated tokens or waiting time.
C21_DetachedNodesInert ==
    [][\A n \in DOMAIN nodes :
          Detached(n) => /\ nodes'[n].usage = nodes[n].usage
                         /\ nodes'[n].waiting_time = nodes[n].waiting_time]_vars

\* A popped node is written only by a record made in another context
\* than the one that entered it, whose chain from its own leaf still
\* holds the node.
C21_DetachedWrittenOnlyThroughStaleLeaf ==
    [][\A n \in DOMAIN nodes :
          (Detached(n) /\ nodes'[n] # nodes[n]) =>
              /\ last'.op \in {"record_model_usage", "record_waiting_time"}
              /\ last'.branch # nodes[n].host
              /\ n \in ChainSet(nodes, last'.node)]_vars

\* C21 divergence: a context forked while a token limit's node was the
\* leaf has recorded usage after the context that entered the limit
\* left it; the record started from the popped node and added to it.
C21_ChildWritesPoppedNode ==
    /\ last.op = "record_model_usage"
    /\ last.node # 0
    /\ Detached(last.node)
    /\ last.branch # nodes[last.node].host
    /\ inherited[last.branch]["token"] = last.node
    /\ spent[nodes[last.node].host] = 0
    /\ nodes[last.node].usage > 0

\* The node of kind k that context b pushed last and has not popped,
\* or, when it has none, the leaf the context started with.
OpenLeaf(ns, st, inh, b, k) ==
    LET S == {j \in 1..Len(st[b]) : ns[st[b][j]].kind = k}
    IN IF S = {} THEN inh[b][k]
       ELSE st[b][CHOOSE j \in S : \A i \in S : i <= j]

\* C22: in every context, a push gives the new node the context's leaf
\* as parent and makes it the leaf; a pop with a leaf takes off the node
\* the context pushed last and has not popped, reports it, and sets the
\* leaf to that node's parent, the leaf from before its push, so that
\* the leaf is always the innermost node the context still has open (the
\* leaf it started with when it has none open); a pop without a leaf
\* raises RuntimeError and leaves the leaf None.  No parent link changes.
C22_PushPopAreInverse ==
    [][LET b == last'.branch
           k == last'.kind
           n == last'.node
       IN /\ last'.op = "enter" =>
                /\ nodes'[n].parent = leaf[b][k]
                /\ leaf'[b][k] = n
          /\ (last'.op = "exit" /\ leaf[b][k] # 0) =>
                /\ n = leaf[b][k]
                /\ n = OpenLeaf(nodes, stack, inherited, b, k)
                /\ leaf'[b][k] = nodes[n].parent
                /\ last'.error.type # "RuntimeError"
          /\ (last'.op = "exit" /\ leaf[b][k] = 0) =>
                /\ last'.error = RuntimeError
                /\ leaf'[b][k] = 0
                /\ nodes' = nodes
          /\ \A m \in DOMAIN nodes : nodes'[m].parent = nodes[m].parent
          /\ \A c \in active', j \in Kinds :
                leaf'[c][j] = OpenLeaf(nodes', stack', inherited', c, j)]_vars

\* C22 witness: a forked context entered two limits of one kind, one
\* inside the other, and has left the inner one: its leaf is the outer
\* node again.
C22_Witness ==
    /\ last.op = "exit" /\ last.branch # 1
    /\ last.error = NoExc
    /\ nodes[last.node].parent # 0
    /\ nodes[nodes[last.node].parent].host = last.branch
    /\ leaf[last.branch][last.kind] = nodes[last.node].parent

\* C22 witness, empty tree: a pop without a leaf raised.
C22_PopOnEmptyRaised ==
    /\ last.op = "exit" /\ last.node = 0
    /\ last.error = RuntimeError
    /\ leaf[last.branch][last.kind] = 0

\* The module-level check functions.
Checks ==
    {"check_token_limit", "check_message_limit", "check_working_time_limit"}

\* C23: a check, whether it returns or raises, leaves every node (its
\* usage, waiting time, start time and parent), every limit value, the
\* leaves and the clock as they were, so that the same check made again
\* at once has the same outcome; in
\*     with working_time_limit(1): advance 2; check; advance 1; check
\* the first check raises with value 2 and the second with value 3,
\* both with limit 1.
C23_CheckChangesNothing ==
    [][/\ last'.op \in Checks =>
            /\ UNCHANGED <<nodes, limit_value, leaf, stack, now, recorded,
                           spent>>
            /\ (last'.op = "check_token_limit" /\ last'.node # 0) =>
                   TokenLimitNode_check(nodes', limit_value',
                                        last'.node).error = last'.error
            /\ (last'.op = "check_working_time_limit" /\ last'.node # 0) =>
                   WorkingTimeLimitNode_check(nodes', limit_value', now',
                                              last'.node).error = last'.error
       /\ script' = 12 =>
            /\ last'.error.type = "LimitExceededError"
            /\ last'.error.value = 2 /\ last'.error.limit = 1
       /\ script' = 14 =>
            /\ last'.error.type = "LimitExceededError"
            /\ last'.error.value = 3 /\ last'.error.limit = 1]_vars

\* C23 witness: the second check of the sequence has raised.
C23_Witness ==
    /\ script = 14
    /\ ViolationRaised
    /\ last.error.kind = "working"
    /\ last.error.value = 3
    /\ now = nodes[last.node].start_time + 3

\* C23 witness, token: a check raised in a scope with recorded usage,
\* which is still on the node.
C23_TokenUsageKept ==
    /\ ViolationRaised
    /\ last.op = "check_token_limit"
    /\ nodes[last.node].usage = last.error.value
    /\ nodes[last.node].usage > 0

\* C24: in one context, a violation is raised only for a scope that is
\* open when the call is made (a check raises for a node of the chain
\* from the leaf, an exit for the node it pops), and a popped node never
\* changes again, its cancel scope included; a check still raises
\* exactly when some open scope is over its limit, and every token node
\* holds all the usage recorded while it was open, that recorded inside
\* scopes since released included.
C24_ReleasedScopeNotEnforced ==
    [][LET b == last'.branch
           err == last'.error
       IN /\ (err.type = "LimitExceededError" /\ last'.op # "catch") =>
                IF last'.op = "exit"
                THEN err.node = last'.node /\ ~Detached(err.node)
                ELSE /\ ~Detached(err.node)
                     /\ err.node \in ChainSet(nodes, leaf[b][err.kind])
          /\ \A n \in DOMAIN nodes : Detached(n) => nodes'[n] = nodes[n]
          /\ (last'.op = "check_token_limit" /\ last'.node # 0) =>
                (err.type = "LimitExceededError"
                   <=> \E n \in ChainSet(nodes, last'.node) : TokenOver(n))
          /\ (last'.op = "check_working_time_limit" /\ last'.node # 0) =>
                (err.type = "LimitExceededError"
                   <=> \E n \in ChainSet(nodes, last'.node) : WorkingOver(n))
          /\ \A n \in DOMAIN nodes' :
                nodes'[n].kind = "token" => nodes'[n].usage = recorded'[n]]_vars

\* C24 witness: outer working-time limit 1, inner limit 10 entered and
\* left, two seconds on the clock: the check raised for the outer scope
\* with limit 1 and value 2.
C24_Witness ==
    /\ ViolationRaised
    /\ last.op = "check_working_time_limit"
    /\ last.error.limit = 1 /\ last.error.value = 2
    /\ last.error.node = last.node
    /\ \E m \in DOMAIN nodes :
          /\ nodes[m].kind = "working" /\ Detached(m)
          /\ nodes[m].parent = last.node
          /\ BoundOf(m) = InnerLimit

\* C24 witness, time: a time limit of 1 was entered and left; a sleep
\* that ended after its deadline returned, with nothing cancelled.
C24_ReleasedTimeLimitSilent ==
    /\ last.op = "sleep" /\ last.error = NoExc
    /\ leaf[1]["time"] = 0
    /\ \E m \in DOMAIN nodes :
          /\ nodes[m].kind = "time" /\ Detached(m)
          /\ nodes[m].deadline # NoneValue
          /\ nodes[m].deadline < now
          /\ ~nodes[m].cancel_called

\* C24 witness, token: usage recorded inside a released inner scope
\* made the check raise for the outer one.
C24_OuterTokenLimitKeepsUsage ==
    /\ ViolationRaised
    /\ last.op = "check_token_limit"
    /\ last.error.node = last.node
    /\ \E m \in DOMAIN nodes :
          /\ nodes[m].kind = "token" /\ Detached(m)
          /\ nodes[m].parent = last.node
          /\ nodes[m].usage = nodes[last.node].usage

\* C25: _TimeLimit.__exit__ called while an exception of the body that
\* is no cancellation is propagating pops the node and changes no node;
\* when the node's cancel scope was not cancelled, nothing is raised, no
\* event is appended and the same exception goes on propagating; when it
\* was cancelled, the exit appends one event and raises the time
\* violation (value = limit = the scope's limit), chained from that
\* exception, which propagates in its place.
C25_TimeExitWithBodyException ==
    [][LET b == last'.branch
           n == last'.node
       IN (/\ last'.op = "exit" /\ last'.kind = "time"
           /\ exc[b].type = "Exception") =>
              /\ n = leaf[b]["time"]
              /\ leaf'[b]["time"] = nodes[n].parent
              /\ stack'[b] = SubSeq(stack[b], 1, Len(stack[b]) - 1)
              /\ nodes' = nodes
              /\ IF nodes[n].cancel_called
                 THEN /\ last'.error.type = "LimitExceededError"
                      /\ last'.error.kind = "time"
                      /\ last'.error.value = BoundOf(n)
                      /\ last'.error.limit = BoundOf(n)
                      /\ last'.error.cause = "Exception"
                      /\ Len(last'.events) = 1
                      /\ exc'[b] = last'.error
                 ELSE /\ last'.error = NoExc
                      /\ last'.events = <<>>
                      /\ exc'[b] = exc[b]]_vars

\* C25 witness: a sleep in a scope with a positive limit was cancelled
\* by its deadline, the body caught the cancellation and raised an
\* exception of its own; the exit raised the violation, chained from it.
C25_Witness ==
    /\ last.op = "exit" /\ last.kind = "time"
    /\ ViolationRaised
    /\ last.error.cause = "Exception"
    /\ last.error.value > 0
    /\ exc[last.branch] = last.error

\* C25 witness, deadline not fired: the body ran past the deadline
\* without suspending and raised; the exit let its exception through.
C25_BodyExceptionPassedOn ==
    /\ last.op = "exit" /\ last.kind = "time"
    /\ last.error = NoExc
    /\ exc[last.branch].type = "Exception"
    /\ nodes[last.node].deadline # NoneValue
    /\ nodes[last.node].deadline < now
    /\ ~nodes[last.node].cancel_called

====
